---------------------------- MODULE Spec2Model ----------------------------
(***************************************************************************)
(* A model of arch/riscv/mm/tlbflush.c: the local TLB invalidation         *)
(* executor, the range flush planner, the dispatch coordinator             *)
(* (__flush_tlb_range) with its two broadcast backends, and the batched    *)
(* invalidation tracker.                                                   *)
(*                                                                         *)
(* Machine words are WordBits wide (unsigned long arithmetic is taken      *)
(* modulo 2^WordBits); the page-table geometry (PAGE_SHIFT .. PGDIR_SHIFT) *)
(* is scaled down with the word so that, as on the real machine,           *)
(* tlb_flush_all_threshold * PGDIR_SIZE is far below the word's range.     *)
(***************************************************************************)
EXTENDS Integers, Sequences, FiniteSets, TLC

\* ------------------------------------------------------------------ bounds

\* width of an unsigned long in the model
WordBits == 20
\* processors 0 .. NCPU-1 (nr_cpu_ids)
NCPU == 3
\* address-space identifiers 1 .. NAsid that contexts may hold
NAsid == 2
\* page counts 0 .. MaxCount are tried around every stride, besides the
\* counts around the threshold
MaxCount == 3

\* --------------------------------------------------------------- constants

WordMod == 2 ^ WordBits
ULONG_MAX == WordMod - 1

\* include/asm/tlbflush.h: both are ((unsigned long)-1)
FLUSH_TLB_MAX_SIZE == ULONG_MAX
FLUSH_TLB_NO_ASID == ULONG_MAX

\* page-table geometry, scaled
PAGE_SHIFT == 2
PMD_SHIFT == 4
PUD_SHIFT == 6
P4D_SHIFT == 8
PGDIR_SHIFT == 10
PAGE_SIZE == 2 ^ PAGE_SHIFT
PMD_SIZE == 2 ^ PMD_SHIFT
PUD_SIZE == 2 ^ PUD_SHIFT
P4D_SIZE == 2 ^ P4D_SHIFT
PGDIR_SIZE == 2 ^ PGDIR_SHIFT

\* static unsigned long tlb_flush_all_threshold __read_mostly = 64;
tlb_flush_all_threshold == 64

CPUs == 0 .. (NCPU - 1)
nr_cpu_ids == NCPU
Asids == 1 .. NAsid

\* unsigned long wrap-around
Wrap(n) == n % WordMod

\* ------------------------------------------------- the hardware TLB, abstractly

\* A cached translation: the identifier it is tagged with, and the naturally
\* aligned region [base, base+len) it translates (len is the mapping's page size).
Translations ==
    { [base |-> 0, len |-> PAGE_SIZE],
      [base |-> PAGE_SIZE, len |-> PAGE_SIZE],
      [base |-> PMD_SIZE, len |-> PMD_SIZE],
      [base |-> 99 * PAGE_SIZE, len |-> PAGE_SIZE],
      [base |-> PGDIR_SIZE, len |-> PGDIR_SIZE] }

Entries == { [asid |-> a, base |-> t.base, len |-> t.len] : a \in Asids, t \in Translations }

\* The instructions the executor issues.
SfenceAll == [op |-> "sfence.vma", addr |-> -1, asid |-> -1]
SfenceAsid(asid) == [op |-> "sfence.vma", addr |-> -1, asid |-> asid]
SfencePage(addr) == [op |-> "sfence.vma", addr |-> addr, asid |-> -1]
SfencePageAsid(addr, asid) == [op |-> "sfence.vma", addr |-> addr, asid |-> asid]

\* sfence.vma rs1, rs2: x0 (here -1) in either place means "all".
Invalidates(i, e) ==
    /\ (i.asid = -1 \/ i.asid = e.asid)
    /\ (i.addr = -1 \/ (e.base <= i.addr /\ i.addr < e.base + e.len))

\* What is left of the cached set T after the instruction sequence s.
Exec(T, s) == { e \in T : \A k \in 1 .. Len(s) : ~Invalidates(s[k], e) }

\* ------------------------------------------------ Local Invalidation Executor

Mut_all_asid_ignores_asid(asid) == << SfenceAll >>

local_flush_tlb_all_asid(asid) ==
    IF asid # FLUSH_TLB_NO_ASID THEN << SfenceAsid(asid) >> ELSE << SfenceAll >>

local_flush_tlb_page_asid(addr, asid) ==
    IF asid # FLUSH_TLB_NO_ASID THEN << SfencePageAsid(addr, asid) >> ELSE << SfencePage(addr) >>

\* (n + d - 1) / d in unsigned long arithmetic
DIV_ROUND_UP(n, d) == Wrap(n + d - 1) \div d

\* the loop of local_flush_tlb_range_threshold_asid: start += stride each turn
FlushLoop(start, stride, asid, n) ==
    [ i \in 1 .. n |->
        IF asid # FLUSH_TLB_NO_ASID
        THEN SfencePageAsid(Wrap(start + (i - 1) * stride), asid)
        ELSE SfencePage(Wrap(start + (i - 1) * stride)) ]

Mut_threshold_off_by_one(start, size, stride, asid) ==
    LET nr_ptes_in_range == DIV_ROUND_UP(size, stride)
    IN  IF nr_ptes_in_range >= tlb_flush_all_threshold
        THEN local_flush_tlb_all_asid(asid)
        ELSE FlushLoop(start, stride, asid, nr_ptes_in_range)

local_flush_tlb_range_threshold_asid(start, size, stride, asid) ==
    LET nr_ptes_in_range == DIV_ROUND_UP(size, stride)
    IN  IF nr_ptes_in_range > tlb_flush_all_threshold
        THEN local_flush_tlb_all_asid(asid)
        ELSE FlushLoop(start, stride, asid, nr_ptes_in_range)

Mut_range_no_sentinel(start, size, stride, asid) ==
    IF size <= stride
    THEN local_flush_tlb_page_asid(start, asid)
    ELSE local_flush_tlb_range_threshold_asid(start, size, stride, asid)

local_flush_tlb_range_asid(start, size, stride, asid) ==
    IF size <= stride
    THEN local_flush_tlb_page_asid(start, asid)
    ELSE IF size = FLUSH_TLB_MAX_SIZE
         THEN local_flush_tlb_all_asid(asid)
         ELSE local_flush_tlb_range_threshold_asid(start, size, stride, asid)

\* ------------------------------------------------------------------- state

VARIABLES
    online,     \* cpu_online_mask: the processors that are online
    use_ipi,    \* riscv_use_ipi_for_rfence()
    use_asid,   \* static branch use_asid_allocator
    tlb,        \* tlb[c]: the translations processor c has cached
    pc,         \* where the calling thread is
    req,        \* the arguments of the call in progress
    cur,        \* the processor the calling thread runs on
    preempt,    \* the calling thread's preempt count (get_cpu / put_cpu)
    cpuid,      \* __flush_tlb_range's local cpuid
    broadcast,  \* __flush_tlb_range's local broadcast
    ftd,        \* __flush_tlb_range's struct flush_tlb_range_data
    pending,    \* processors that still have to run the IPI callback
    ops,        \* ops[c]: the instructions processor c executed for this call
    bk,         \* what the call in progress did: backend taken, masks read, pins
    batch,      \* batch->cpumask of the arch_tlbflush_unmap_batch
    acc         \* bookkeeping of the batch: what was added, what was flushed

vars == << online, use_ipi, use_asid, tlb, pc, req, cur, preempt, cpuid,
           broadcast, ftd, pending, ops, bk, batch, acc >>

NoReq == [fn |-> "none", ref |-> "none", mask |-> {}, asid |-> 0, start |-> 0,
          size |-> 0, stride |-> 0, huge |-> FALSE, hsize |-> 0, napot |-> FALSE]
NoFtd == [asid |-> 0, start |-> 0, size |-> 0, stride |-> 0]
NoBk == [kind |-> "none", seen |-> {}, mask |-> {}, on |-> -1, pin |-> 0,
         gets |-> 0, puts |-> 0]
NoOps == [c \in CPUs |-> << >>]
NoAcc == [added |-> {}, last |-> {}]

\* every online processor may have cached every translation
FullTlb == [c \in CPUs |-> IF c \in online THEN Entries ELSE {}]

\* the processors *cmask names, read now: cmask is a pointer
CMask ==
    IF req.ref = "online" THEN online
    ELSE IF req.ref = "batch" THEN batch
    ELSE req.mask

cpumask_empty(m) == m = {}

\* the first processor of m other than cpu, nr_cpu_ids if there is none
cpumask_any_but(m, cpu) ==
    IF m \ {cpu} = {} THEN nr_cpu_ids
    ELSE CHOOSE c \in m \ {cpu} : \A d \in m \ {cpu} : c <= d

\* ------------------------------------------------------ Broadcast backends

\* on_each_cpu_mask(mask, func, info, wait = 1): func is run on every online
\* processor of mask, the calling one included when it is in mask, and the
\* call returns when all of them have run it.
on_each_cpu_mask_targets(mask) == mask \cap online

\* [start, start+size) as the firmware is given it; the whole space for the sentinel
Overlaps(e, start, size) ==
    \/ size = FLUSH_TLB_MAX_SIZE
    \/ (e.base < start + size /\ start < e.base + e.len)

AsidMatches(e, asid) == asid = FLUSH_TLB_NO_ASID \/ e.asid = asid

\* sbi_remote_sfence_vma_asid(cmask, start, size, asid): the firmware
\* invalidates the range for the identifier (for all, with none) on every
\* processor of cmask and returns when that is done.
sbi_remote_sfence_vma_asid(T, mask, start, size, asid) ==
    [c \in CPUs |->
        IF c \in mask
        THEN { e \in T[c] : ~(AsidMatches(e, asid) /\ Overlaps(e, start, size)) }
        ELSE T[c]]

SbiCall(start, size, asid) == [op |-> "sbi_rfence", addr |-> start, size |-> size, asid |-> asid]

\* ---------------------------------------------------- Dispatch Coordinator

Mut_EarlyReturn_never(m) == FALSE

\* if (cpumask_empty(cmask)) return;
EarlyReturn(m) == cpumask_empty(m)

Mut_NotOnlineMask_always(ref) == TRUE

\* cmask != cpu_online_mask: the pointer is compared, not the content
NotOnlineMask(ref) == ref # "online"

Mut_NeedBroadcast_always(ref, m, cpu) == TRUE

Mut_NeedBroadcast_by_content(ref, m, cpu) == cpumask_any_but(m, cpu) < nr_cpu_ids

\* the value of broadcast after lines 112-120
NeedBroadcast(ref, m, cpu) ==
    IF NotOnlineMask(ref) THEN cpumask_any_but(m, cpu) < nr_cpu_ids ELSE TRUE

Mut_BackendMask_others_only(m, cpu) == m \ {cpu}

\* the mask handed to on_each_cpu_mask / sbi_remote_sfence_vma_asid: cmask itself
BackendMask(m, cpu) == m

\* where the thread goes when __flush_tlb_range returns
AfterReturn == IF req.fn = "arch_tlbbatch_flush" THEN "clear" ELSE "done"

\* lines 109-120
FlushTlbRange_Check ==
    /\ pc = "entry"
    /\ IF EarlyReturn(CMask)
       THEN /\ pc' = AfterReturn
            /\ bk' = [bk EXCEPT !.seen = CMask]
            /\ UNCHANGED << preempt, cpuid, broadcast >>
       ELSE /\ pc' = "dispatch"
            /\ broadcast' = NeedBroadcast(req.ref, CMask, cur)
            /\ IF NotOnlineMask(req.ref)
               THEN /\ preempt' = preempt + 1
                    /\ cpuid' = cur
                    /\ bk' = [bk EXCEPT !.seen = CMask, !.gets = @ + 1]
               ELSE /\ bk' = [bk EXCEPT !.seen = CMask]
                    /\ UNCHANGED << preempt, cpuid >>
    /\ UNCHANGED << online, use_ipi, use_asid, tlb, req, cur, ftd, pending, ops, batch, acc >>

\* lines 122-136
FlushTlbRange_Dispatch ==
    /\ pc = "dispatch"
    /\ IF broadcast
       THEN IF use_ipi
            THEN /\ ftd' = [asid |-> req.asid, start |-> req.start,
                            size |-> req.size, stride |-> req.stride]
                 /\ pending' = on_each_cpu_mask_targets(BackendMask(CMask, cur))
                 /\ bk' = [bk EXCEPT !.kind = "ipi", !.mask = BackendMask(CMask, cur),
                                     !.on = cur, !.pin = preempt]
                 /\ pc' = "wait"
                 /\ UNCHANGED << tlb, ops >>
            ELSE /\ tlb' = sbi_remote_sfence_vma_asid(tlb, BackendMask(CMask, cur),
                                                      req.start, req.size, req.asid)
                 /\ ops' = [c \in CPUs |->
                              IF c \in BackendMask(CMask, cur)
                              THEN Append(ops[c], SbiCall(req.start, req.size, req.asid))
                              ELSE ops[c]]
                 /\ bk' = [bk EXCEPT !.kind = "sbi", !.mask = BackendMask(CMask, cur),
                                     !.on = cur, !.pin = preempt]
                 /\ pc' = "put"
                 /\ UNCHANGED << ftd, pending >>
       ELSE /\ ops' = [ops EXCEPT ![cur] = @ \o local_flush_tlb_range_asid(
                                      req.start, req.size, req.stride, req.asid)]
            /\ tlb' = [tlb EXCEPT ![cur] = Exec(@, local_flush_tlb_range_asid(
                                      req.start, req.size, req.stride, req.asid))]
            /\ bk' = [bk EXCEPT !.kind = "local", !.mask = {cur}, !.on = cur,
                                !.pin = preempt]
            /\ pc' = "put"
            /\ UNCHANGED << ftd, pending >>
    /\ UNCHANGED << online, use_ipi, use_asid, req, cur, preempt, cpuid, broadcast, batch, acc >>

Mut_ipi_ignores_stride(c) ==
    /\ pc = "wait"
    /\ c \in pending
    /\ ops' = [ops EXCEPT ![c] = @ \o local_flush_tlb_range_asid(
                                  ftd.start, ftd.size, PAGE_SIZE, ftd.asid)]
    /\ tlb' = [tlb EXCEPT ![c] = Exec(@, local_flush_tlb_range_asid(
                                  ftd.start, ftd.size, PAGE_SIZE, ftd.asid))]
    /\ pending' = pending \ {c}
    /\ UNCHANGED << online, use_ipi, use_asid, pc, req, cur, preempt, cpuid, broadcast,
                    ftd, bk, batch, acc >>

\* lines 95-100, on processor c
ipi_flush_tlb_range_asid(c) ==
    /\ pc = "wait"
    /\ c \in pending
    /\ ops' = [ops EXCEPT ![c] = @ \o local_flush_tlb_range_asid(
                                  ftd.start, ftd.size, ftd.stride, ftd.asid)]
    /\ tlb' = [tlb EXCEPT ![c] = Exec(@, local_flush_tlb_range_asid(
                                  ftd.start, ftd.size, ftd.stride, ftd.asid))]
    /\ pending' = pending \ {c}
    /\ UNCHANGED << online, use_ipi, use_asid, pc, req, cur, preempt, cpuid, broadcast,
                    ftd, bk, batch, acc >>

\* on_each_cpu_mask returns: every targeted processor has run the callback
on_each_cpu_mask_return ==
    /\ pc = "wait"
    /\ pending = {}
    /\ pc' = "put"
    /\ UNCHANGED << online, use_ipi, use_asid, tlb, req, cur, preempt, cpuid, broadcast,
                    ftd, pending, ops, bk, batch, acc >>

Mut_Put_only_after_broadcast ==
    /\ pc = "put"
    /\ IF NotOnlineMask(req.ref) /\ broadcast
       THEN /\ preempt' = preempt - 1
            /\ bk' = [bk EXCEPT !.puts = @ + 1]
       ELSE UNCHANGED << preempt, bk >>
    /\ pc' = AfterReturn
    /\ UNCHANGED << online, use_ipi, use_asid, tlb, req, cur, cpuid, broadcast, ftd,
                    pending, ops, batch, acc >>

\* lines 138-140
FlushTlbRange_Put ==
    /\ pc = "put"
    /\ IF NotOnlineMask(req.ref)
       THEN /\ preempt' = preempt - 1
            /\ bk' = [bk EXCEPT !.puts = @ + 1]
       ELSE UNCHANGED << preempt, bk >>
    /\ pc' = AfterReturn
    /\ UNCHANGED << online, use_ipi, use_asid, tlb, req, cur, cpuid, broadcast, ftd,
                    pending, ops, batch, acc >>

\* the scheduler moves the thread while it is preemptible
Migrate ==
    /\ pc \in {"dispatch", "put"}
    /\ preempt = 0
    /\ \E c \in online \ {cur} : cur' = c
    /\ UNCHANGED << online, use_ipi, use_asid, tlb, pc, req, preempt, cpuid, broadcast,
                    ftd, pending, ops, bk, batch, acc >>

\* the call is over; the processors run on and cache translations again
Resume ==
    /\ pc = "done"
    /\ pc' = "idle"
    /\ tlb' = FullTlb
    /\ req' = NoReq
    /\ cpuid' = -1
    /\ broadcast' = FALSE
    /\ ftd' = NoFtd
    /\ ops' = NoOps
    /\ bk' = NoBk
    /\ acc' = IF req.fn = "arch_tlbbatch_flush"
              THEN [added |-> batch, last |-> bk.mask]
              ELSE acc
    /\ UNCHANGED << online, use_ipi, use_asid, cur, preempt, pending, batch >>

\* ------------------------------------------------------ Range Flush Planner

\* atomic_long_read(&mm->context.id) & asid_mask of the context whose mapping
\* changed; the other identifiers tag the translations of other contexts
mm_context_id == 1

\* get_mm_asid(mm), for a context whose context.id is id (within asid_mask)
get_mm_asid(id) == IF use_asid THEN id ELSE FLUSH_TLB_NO_ASID

Mut_stride_ascending(huge, hsize, napot) ==
    IF ~huge
    THEN PAGE_SIZE
    ELSE IF napot
         THEN IF hsize >= PMD_SIZE THEN PMD_SIZE
              ELSE IF hsize >= PUD_SIZE THEN PUD_SIZE
              ELSE IF hsize >= P4D_SIZE THEN P4D_SIZE
              ELSE IF hsize >= PGDIR_SIZE THEN PGDIR_SIZE
              ELSE PAGE_SIZE
         ELSE hsize

\* the stride flush_tlb_range computes (lines 173-195)
flush_tlb_range_stride(huge, hsize, napot) ==
    IF ~huge
    THEN PAGE_SIZE
    ELSE IF napot
         THEN IF hsize >= PGDIR_SIZE THEN PGDIR_SIZE
              ELSE IF hsize >= P4D_SIZE THEN P4D_SIZE
              ELSE IF hsize >= PUD_SIZE THEN PUD_SIZE
              ELSE IF hsize >= PMD_SIZE THEN PMD_SIZE
              ELSE PAGE_SIZE
         ELSE hsize

\* huge_page_size(hstate_vma(vma)) of the hugetlb mappings tried
HugeSizes == { 2 * PAGE_SIZE, PMD_SIZE, 2 * PMD_SIZE, PUD_SIZE, P4D_SIZE,
               PGDIR_SIZE, 2 * PGDIR_SIZE }

\* the last page-aligned address
TopPage == WordMod - PAGE_SIZE

\* the [start, end) the callers pass for a mapping of granularity s: one unit,
\* two units, more units than the threshold, and up to the last page
Ranges(s) == { << 0, s >>, << s, 3 * s >>,
               << 0, (tlb_flush_all_threshold + 1) * s >>, << 0, TopPage >> }

\* a call of __flush_tlb_range(cmask, asid, start, size, stride) by fn
Call(fn, ref, m, asid, start, size, stride, huge, hsize, napot) ==
    /\ pc = "idle"
    /\ pc' = "entry"
    /\ req' = [fn |-> fn, ref |-> ref, mask |-> m, asid |-> asid, start |-> start,
               size |-> size, stride |-> stride, huge |-> huge, hsize |-> hsize,
               napot |-> napot]
    /\ \E c \in online : cur' = c
    /\ UNCHANGED << online, use_ipi, use_asid, tlb, preempt, cpuid, broadcast, ftd,
                    pending, ops, bk, batch, acc >>

\* lines 148-152
flush_tlb_mm ==
    \E m \in SUBSET online, id \in {mm_context_id} :
        Call("flush_tlb_mm", "mm", m, get_mm_asid(id), 0, FLUSH_TLB_MAX_SIZE,
             PAGE_SIZE, FALSE, 0, FALSE)

\* lines 154-160
flush_tlb_mm_range ==
    \E m \in SUBSET online, id \in {mm_context_id}, page_size \in {PAGE_SIZE, PMD_SIZE} :
        \E r \in Ranges(page_size) :
            Call("flush_tlb_mm_range", "mm", m, get_mm_asid(id), r[1],
                 Wrap(r[2] - r[1]), page_size, FALSE, 0, FALSE)

\* lines 162-166
flush_tlb_page ==
    \E m \in SUBSET online, id \in {mm_context_id}, addr \in {0, PAGE_SIZE} :
        Call("flush_tlb_page", "mm", m, get_mm_asid(id), addr, PAGE_SIZE,
             PAGE_SIZE, FALSE, 0, FALSE)

\* lines 168-199
flush_tlb_range ==
    \E m \in SUBSET online, id \in {mm_context_id}, huge \in BOOLEAN, napot \in BOOLEAN :
        \E hsize \in IF huge THEN HugeSizes ELSE {PAGE_SIZE} :
            \E r \in { << 0, hsize >>, << hsize, 3 * hsize >> } :
                Call("flush_tlb_range", "mm", m, get_mm_asid(id), r[1],
                     Wrap(r[2] - r[1]), flush_tlb_range_stride(huge, hsize, napot),
                     huge, hsize, napot)

\* lines 201-205
flush_tlb_kernel_range ==
    \E r \in Ranges(PAGE_SIZE) :
        Call("flush_tlb_kernel_range", "online", {}, FLUSH_TLB_NO_ASID, r[1],
             Wrap(r[2] - r[1]), PAGE_SIZE, FALSE, 0, FALSE)

\* lines 208-213
flush_pmd_tlb_range ==
    \E m \in SUBSET online, id \in {mm_context_id} :
        \E r \in Ranges(PMD_SIZE) :
            Call("flush_pmd_tlb_range", "mm", m, get_mm_asid(id), r[1],
                 Wrap(r[2] - r[1]), PMD_SIZE, FALSE, 0, FALSE)

\* ------------------------------------------------------------ the dispatch system

Init ==
    /\ online \in (SUBSET CPUs) \ {{}}
    /\ use_ipi \in BOOLEAN
    /\ use_asid \in BOOLEAN
    /\ tlb = FullTlb
    /\ pc = "idle"
    /\ req = NoReq
    /\ cur = CHOOSE c \in online : \A d \in online : c <= d
    /\ preempt = 0
    /\ cpuid = -1
    /\ broadcast = FALSE
    /\ ftd = NoFtd
    /\ pending = {}
    /\ ops = NoOps
    /\ bk = NoBk
    /\ batch = {}
    /\ acc = NoAcc

Next ==
    \/ flush_tlb_mm
    \/ flush_tlb_mm_range
    \/ flush_tlb_page
    \/ flush_tlb_range
    \/ flush_tlb_kernel_range
    \/ flush_pmd_tlb_range
    \/ FlushTlbRange_Check
    \/ FlushTlbRange_Dispatch
    \/ \E c \in CPUs : ipi_flush_tlb_range_asid(c)
    \/ on_each_cpu_mask_return
    \/ FlushTlbRange_Put
    \/ Migrate
    \/ Resume

Spec == Init /\ [][Next]_vars

\* ------------------------------------------------ Batched Invalidation Tracker

\* lines 221-226: cpumask_or(&batch->cpumask, &batch->cpumask, mm_cpumask(mm)),
\* by a thread other than the flushing one; acc.added remembers what was added
Mut_cpumask_or_overwrites(dst, src) == src

\* cpumask_or(dstp, src1p, src2p) with dstp = src1p: the bits of both
cpumask_or(dst, src) == dst \cup src

arch_tlbbatch_add_pending ==
    /\ \E m \in (SUBSET online) \ {{}} :
          /\ batch' = cpumask_or(batch, m)
          /\ acc' = [acc EXCEPT !.added = @ \cup m]
    /\ UNCHANGED << online, use_ipi, use_asid, tlb, pc, req, cur, preempt, cpuid,
                    broadcast, ftd, pending, ops, bk >>

\* lines 233-236: the call of __flush_tlb_range on &batch->cpumask
Mut_tlbbatch_flush_asid_of_context == get_mm_asid(mm_context_id)

\* line 235: the identifier arch_tlbbatch_flush passes
tlbbatch_flush_asid == FLUSH_TLB_NO_ASID

arch_tlbbatch_flush ==
    Call("arch_tlbbatch_flush", "batch", {}, tlbbatch_flush_asid, 0,
         FLUSH_TLB_MAX_SIZE, PAGE_SIZE, FALSE, 0, FALSE)

Mut_tlbbatch_flush_no_clear ==
    /\ pc = "clear"
    /\ pc' = "done"
    /\ UNCHANGED << online, use_ipi, use_asid, tlb, req, cur, preempt, cpuid,
                    broadcast, ftd, pending, ops, bk, batch, acc >>

\* line 237: cpumask_clear(&batch->cpumask)
arch_tlbbatch_flush_clear ==
    /\ pc = "clear"
    /\ batch' = {}
    /\ pc' = "done"
    /\ UNCHANGED << online, use_ipi, use_asid, tlb, req, cur, preempt, cpuid,
                    broadcast, ftd, pending, ops, bk, acc >>

InitBatch ==
    /\ online = CPUs
    /\ use_ipi \in BOOLEAN
    /\ use_asid \in BOOLEAN
    /\ tlb = FullTlb
    /\ pc = "idle"
    /\ req = NoReq
    /\ cur = 0
    /\ preempt = 0
    /\ cpuid = -1
    /\ broadcast = FALSE
    /\ ftd = NoFtd
    /\ pending = {}
    /\ ops = NoOps
    /\ bk = NoBk
    /\ batch = {}
    /\ acc = NoAcc

NextBatch ==
    \/ arch_tlbbatch_add_pending
    \/ arch_tlbbatch_flush
    \/ FlushTlbRange_Check
    \/ FlushTlbRange_Dispatch
    \/ \E c \in CPUs : ipi_flush_tlb_range_asid(c)
    \/ on_each_cpu_mask_return
    \/ FlushTlbRange_Put
    \/ arch_tlbbatch_flush_clear
    \/ Resume

SpecBatch == InitBatch /\ [][NextBatch]_vars

\* ------------------------------------- the tracker used by one thread in turn

\* lines 221-226, by the thread that also flushes: between two flushes
arch_tlbbatch_add_pending_seq ==
    /\ pc = "idle"
    /\ arch_tlbbatch_add_pending

\* lines 228-231: flush_tlb_mm(mm)
arch_flush_tlb_batched_pending ==
    \E m \in SUBSET online, id \in {mm_context_id} :
        Call("arch_flush_tlb_batched_pending", "mm", m, get_mm_asid(id), 0,
             FLUSH_TLB_MAX_SIZE, PAGE_SIZE, FALSE, 0, FALSE)

NextSeq ==
    \/ arch_tlbbatch_add_pending_seq
    \/ arch_tlbbatch_flush
    \/ arch_flush_tlb_batched_pending
    \/ FlushTlbRange_Check
    \/ FlushTlbRange_Dispatch
    \/ \E c \in CPUs : ipi_flush_tlb_range_asid(c)
    \/ on_each_cpu_mask_return
    \/ FlushTlbRange_Put
    \/ arch_tlbbatch_flush_clear
    \/ Resume

SpecSeq == InitBatch /\ [][NextSeq]_vars

\* ------------------------------------------- the local range flush on its own

\* the page counts tried for every stride
LocalCounts == (0 .. MaxCount) \cup
               { 10, tlb_flush_all_threshold - 1, tlb_flush_all_threshold,
                 tlb_flush_all_threshold + 1, 100 }

\* the strides the entry points can pass (flush_tlb_mm_range's page_size included)
LocalStrides == HugeSizes \cup {1, PAGE_SIZE}

LocalSizes(stride) ==
    { c * stride - d : c \in LocalCounts \ {0}, d \in {0, 1} }
        \cup { ULONG_MAX - 1, TopPage, FLUSH_TLB_MAX_SIZE }

\* ranges that lie in the address space
LocalStarts(size, stride) ==
    { a \in {0, stride, PAGE_SIZE + 1} : size = FLUSH_TLB_MAX_SIZE \/ a + size <= WordMod }

InitLocal ==
    /\ online = CPUs
    /\ use_ipi = TRUE
    /\ use_asid = TRUE
    /\ tlb = FullTlb
    /\ pc = "local"
    /\ \E stride \in LocalStrides, asid \in Asids \cup {FLUSH_TLB_NO_ASID} :
         \E size \in LocalSizes(stride) :
           \E start \in LocalStarts(size, stride) :
              req = [fn |-> "local_flush_tlb_range_asid", ref |-> "none", mask |-> {},
                     asid |-> asid, start |-> start, size |-> size, stride |-> stride,
                     huge |-> FALSE, hsize |-> 0, napot |-> FALSE]
    /\ cur = 0
    /\ preempt = 0
    /\ cpuid = -1
    /\ broadcast = FALSE
    /\ ftd = NoFtd
    /\ pending = {}
    /\ ops = NoOps
    /\ bk = NoBk
    /\ batch = {}
    /\ acc = NoAcc

\* lines 58-67, run on the current processor
LocalFlush ==
    /\ pc = "local"
    /\ ops' = [ops EXCEPT ![cur] = local_flush_tlb_range_asid(
                                      req.start, req.size, req.stride, req.asid)]
    /\ tlb' = [tlb EXCEPT ![cur] = Exec(@, local_flush_tlb_range_asid(
                                      req.start, req.size, req.stride, req.asid))]
    /\ pc' = "done"
    /\ UNCHANGED << online, use_ipi, use_asid, req, cur, preempt, cpuid, broadcast,
                    ftd, pending, bk, batch, acc >>

NextLocal == LocalFlush

SpecLocal == InitLocal /\ [][NextLocal]_vars

\* ------------------------------------------------------ Software TLB Fill Unit

\* The control registers are written with unsigned long values of the 64-bit
\* machine; here such a value is the set of the positions of its one bits.
BITS_PER_LONG == 64
Bits64 == 0 .. (BITS_PER_LONG - 1)

\* 1UL << k
Bit(k) == {k}
\* w << k and w >> k of an unsigned long
Shl(w, k) == { b + k : b \in w } \cap Bits64
Shr(w, k) == { b - k : b \in { x \in w : x >= k } }
\* GENMASK(h, l)
GENMASK(h, l) == l .. h

\* the unsigned long of the 64-bit machine for a value n of the flush model:
\* (unsigned long)-1 is all ones, anything else is its binary digits
Word64(n) ==
    IF n = ULONG_MAX THEN Bits64
    ELSE { b \in 0 .. (WordBits - 1) : (n \div (2 ^ b)) % 2 = 1 }

\* PAGE_SHIFT of the 64-bit machine (4 KiB pages)
FILL_PAGE_SHIFT == 12

SMEH_VPN_SHIFT == 19
SMEH_4KB_PAGE == Bit(16)
SMEL_CACHEABLE == Bit(62)
SMEL_BUFFERABLE == Bit(61)
SMEL_SHAREABLE == Bit(60)
SMEL_TRUSTABLE == Bit(59)
SMEL_PFN_SHIFT == 10
SMEL_VALID == Bit(0)
SMCIR_TLBWR == Bit(28)

\* lines 262-264: vpn and smeh
fill_vpn(address) == Shr(address, FILL_PAGE_SHIFT)
smeh_value(address, asid) ==
    asid \cup SMEH_4KB_PAGE \cup Shl(fill_vpn(address), SMEH_VPN_SHIFT)

\* swp_offset_pfn(__pte_to_swp_entry(vmf->orig_pte)): the resident physical
\* frame number the page-table reader resolved for the fault
swp_offset_pfn(vmf) == vmf.pfn

Mut_smel_value_no_genmask(pte, pfn) ==
    LET fixed == SMEL_CACHEABLE \cup SMEL_BUFFERABLE \cup SMEL_SHAREABLE
                    \cup SMEL_TRUSTABLE \cup SMEL_VALID
    IN  fixed \cup Shl(pfn, SMEL_PFN_SHIFT) \cup pte

\* lines 267-270: fixed, RWXUGADR and smel
smel_value(pte, pfn) ==
    LET fixed == SMEL_CACHEABLE \cup SMEL_BUFFERABLE \cup SMEL_SHAREABLE
                    \cup SMEL_TRUSTABLE \cup SMEL_VALID
        RWXUGADR == GENMASK(9, 1) \cap pte
    IN  fixed \cup Shl(pfn, SMEL_PFN_SHIFT) \cup RWXUGADR

\* line 273
smcir_value == SMCIR_TLBWR

\* csr_write(csr, val), as an entry of the instruction log
csr_write(csr, val) == [op |-> "csrw", csr |-> csr, val |-> val]

\* the faults: addresses of user mappings, page-table entry values, frame numbers
FillAddresses == { {12}, 0 .. 11, {0, 5, 12, 13, 30}, 12 .. 38, {55} }
FillPtes == { {}, {0, 1, 2, 4, 6, 7, 10, 11}, {1, 3, 9, 12, 59, 63}, Bits64 }
FillPfns == { {}, {0}, {3, 20}, {48}, 0 .. 48 }
FillIds == { 0, 1, 43981, 65535 }

InitFill ==
    /\ online = CPUs
    /\ use_ipi = TRUE
    /\ use_asid \in BOOLEAN
    /\ tlb = FullTlb
    /\ pc = "fill"
    /\ \E address \in FillAddresses, pte \in FillPtes, pfn \in FillPfns, id \in FillIds :
          req = [fn |-> "smokewagon_load_tlb", address |-> address, pte |-> pte,
                 pfn |-> pfn, id |-> id]
    /\ cur = 0
    /\ preempt = 0
    /\ cpuid = -1
    /\ broadcast = FALSE
    /\ ftd = NoFtd
    /\ pending = {}
    /\ ops = NoOps
    /\ bk = NoBk
    /\ batch = {}
    /\ acc = NoAcc

\* one statement group of smokewagon_load_tlb: the write of csr with val
FillStep(from, to, csr, val) ==
    /\ pc = from
    /\ ops' = [ops EXCEPT ![cur] = Append(@, csr_write(csr, val))]
    /\ pc' = to
    /\ UNCHANGED << online, use_ipi, use_asid, tlb, req, cur, preempt, cpuid, broadcast,
                    ftd, pending, bk, batch, acc >>

\* lines 262-265
smokewagon_load_tlb_smeh ==
    FillStep("fill", "smel", "CSR_SMEH",
             smeh_value(req.address, Word64(get_mm_asid(req.id))))

Mut_smel_step_commits ==
    FillStep("smel", "smcir", "CSR_SMCIR", smcir_value)

\* lines 267-271
smokewagon_load_tlb_smel ==
    FillStep("smel", "smcir", "CSR_SMEL", smel_value(req.pte, swp_offset_pfn(req)))

\* lines 273-276
smokewagon_load_tlb_smcir ==
    FillStep("smcir", "loaded", "CSR_SMCIR", smcir_value)

NextFill ==
    \/ smokewagon_load_tlb_smeh
    \/ smokewagon_load_tlb_smel
    \/ smokewagon_load_tlb_smcir

SpecFill == InitFill /\ [][NextFill]_vars

\* ================================================================== claims

\* the call in progress is one of __flush_tlb_range and has returned
Returned == pc = "done" /\ req.fn \notin {"none", "local_flush_tlb_range_asid"}

\* the processor __flush_tlb_range ran on when it decided and dispatched
Caller == IF NotOnlineMask(req.ref) /\ cpuid # -1 THEN cpuid ELSE bk.on

\* ceil(n / d), in the integers
CeilDiv(n, d) == (n + d - 1) \div d

\* a cached translation of the flushed context in the flushed range, of a page
\* size the stride reaches
Stale(e) ==
    /\ AsidMatches(e, req.asid)
    /\ e.len >= req.stride
    /\ Overlaps(e, req.start, req.size)

\* what the local range flush is expected to issue for the call's arguments
ExpectedLocal == local_flush_tlb_range_asid(req.start, req.size, req.stride, req.asid)

\* C1: once __flush_tlb_range has returned, no processor of the target set
\* still caches a translation of the context for a page overlapping
\* [start, start+size), on the local, the IPI and the SBI path alike.
C1_NoStaleAfterFlush ==
    Returned => \A c \in bk.seen : \A e \in tlb[c] : ~Stale(e)

\* C2 (as stated): when the target set holds exactly the calling processor, the
\* call flushes locally on it and invokes neither broadcast backend.
C2_SelfOnlyIsLocal ==
    (Returned /\ bk.seen = {Caller}) =>
        /\ bk.kind = "local"
        /\ bk.on = Caller
        /\ ops = [c \in CPUs |-> IF c = Caller THEN ExpectedLocal ELSE << >>]

\* C2 (amended): when the target set is not cpu_online_mask itself and holds
\* exactly the calling processor, the call flushes locally on the calling
\* processor and invokes neither on_each_cpu_mask nor
\* sbi_remote_sfence_vma_asid, whatever the backend flag is.
C2_SelfOnlyNotOnlineIsLocal ==
    (Returned /\ NotOnlineMask(req.ref) /\ bk.seen = {Caller}) =>
        /\ bk.kind = "local"
        /\ bk.on = Caller
        /\ ops = [c \in CPUs |-> IF c = Caller THEN ExpectedLocal ELSE << >>]

C2_Witness ==
    /\ Returned
    /\ req.ref = "mm"
    /\ bk.seen = {cpuid}
    /\ bk.kind = "local"
    /\ ~use_ipi
    /\ Cardinality(online) > 1
    /\ ops[cpuid] # << >>

C4_BackendGetsOthersOnly ==
    (Returned /\ bk.kind \in {"ipi", "sbi"} /\ Caller \in bk.seen) =>
        bk.mask = bk.seen \ {Caller}

\* C4 (amended): when the call broadcasts and the calling processor is in the
\* target set, the backend is given the whole target set, the calling
\* processor included; __flush_tlb_range makes no direct local flush, and the
\* calling processor is flushed by the backend like every other target.
C4_BackendGetsWholeMask ==
    (Returned /\ bk.kind \in {"ipi", "sbi"} /\ Caller \in bk.seen) =>
        /\ bk.mask = bk.seen
        /\ Caller \in bk.mask
        /\ bk.kind = "ipi" => ops[Caller] = ExpectedLocal
        /\ bk.kind = "sbi" => ops[Caller] = << SbiCall(req.start, req.size, req.asid) >>

C4_Witness ==
    /\ Returned
    /\ req.fn = "flush_tlb_page"
    /\ req.asid = 1
    /\ req.start = PAGE_SIZE
    /\ bk.seen = {0, 2}
    /\ Caller = 0
    /\ bk.kind = "ipi"
    /\ bk.mask = {0, 2}
    /\ ops[0] # << >>
    /\ ops[2] # << >>

\* C5: a call with an empty target set returns without invalidating anything
\* on any processor, without invoking a backend and without taking the pin.
C5_EmptyMaskNoOp ==
    (Returned /\ bk.seen = {}) =>
        /\ bk.kind = "none"
        /\ ops = NoOps
        /\ tlb = FullTlb
        /\ preempt = 0
        /\ bk.gets = 0
        /\ bk.puts = 0

C5_Witness ==
    /\ Returned
    /\ req.fn = "flush_tlb_mm"
    /\ req.mask = {}
    /\ bk.seen = {}
    /\ bk.kind = "none"

\* the local range flush has run on the arguments of req
LocalDone == pc = "done" /\ req.fn = "local_flush_tlb_range_asid"

\* C6: with count = ceil(size/stride) and 1 < count <= tlb_flush_all_threshold
\* the local range flush issues exactly count single-page invalidations, at
\* start, start+stride, ..., in strictly increasing order, and no full flush.
C6_PageByPage ==
    LET count == CeilDiv(req.size, req.stride)
        log == ops[cur]
    IN  (LocalDone /\ 1 < count /\ count <= tlb_flush_all_threshold) =>
            /\ Len(log) = count
            /\ \A i \in 1 .. Len(log) :
                  /\ log[i].addr = req.start + (i - 1) * req.stride
                  /\ log[i].asid = IF req.asid = FLUSH_TLB_NO_ASID THEN -1 ELSE req.asid
            /\ \A i \in 1 .. Len(log), j \in 1 .. Len(log) :
                  i < j => log[i].addr < log[j].addr

C6_Witness ==
    /\ LocalDone
    /\ req.stride = PAGE_SIZE
    /\ req.size = 10 * PAGE_SIZE
    /\ Len(ops[cur]) = 10
    /\ ops[cur][10].addr = req.start + 9 * PAGE_SIZE

\* C7: for every size but the sentinel whose ceil(size/stride) exceeds
\* tlb_flush_all_threshold, the local range flush issues exactly one full
\* flush and no single-page invalidation; DIV_ROUND_UP(size, stride) is the
\* mathematical ceiling.
C7_FullFlushAboveThreshold ==
    (/\ LocalDone
     /\ req.size # FLUSH_TLB_MAX_SIZE
     /\ req.stride >= 1
     /\ CeilDiv(req.size, req.stride) > tlb_flush_all_threshold) =>
        /\ DIV_ROUND_UP(req.size, req.stride) = CeilDiv(req.size, req.stride)
        /\ ops[cur] = << IF req.asid = FLUSH_TLB_NO_ASID THEN SfenceAll
                         ELSE SfenceAsid(req.asid) >>

\* C8: in local_flush_tlb_range_asid a size of exactly one stride gives exactly
\* one single-page invalidation at start, and the size FLUSH_TLB_MAX_SIZE
\* gives exactly one full flush and no single-page invalidation.
C8_ShortCircuits ==
    LET page == [op |-> "sfence.vma", addr |-> req.start,
                 asid |-> IF req.asid = FLUSH_TLB_NO_ASID THEN -1 ELSE req.asid]
        all == [op |-> "sfence.vma", addr |-> -1,
                asid |-> IF req.asid = FLUSH_TLB_NO_ASID THEN -1 ELSE req.asid]
    IN  /\ (LocalDone /\ req.size = req.stride) => ops[cur] = << page >>
        /\ (LocalDone /\ req.size = FLUSH_TLB_MAX_SIZE) => ops[cur] = << all >>

C8_Witness ==
    /\ LocalDone
    /\ req.size = FLUSH_TLB_MAX_SIZE
    /\ req.stride = PMD_SIZE
    /\ req.asid = 1
    /\ ops[cur] = << SfenceAsid(1) >>

\* the block sizes flush_tlb_range may choose under the NAPOT constraint
NapotBlocks == { PGDIR_SIZE, P4D_SIZE, PUD_SIZE, PMD_SIZE }

\* C9: flush_tlb_range's stride is the base page size for a non-huge mapping,
\* the huge-page size for a huge mapping without NAPOT, and with NAPOT the
\* largest of PGDIR, P4D, PUD, PMD size not above the huge-page size, or the
\* base page size below PMD size; it never exceeds the huge-page size.
C9_StrideChoice ==
    req.fn = "flush_tlb_range" =>
        /\ ~req.huge => req.stride = PAGE_SIZE
        /\ (req.huge /\ ~req.napot) => req.stride = req.hsize
        /\ (req.huge /\ req.napot /\ req.hsize >= PMD_SIZE) =>
              /\ req.stride \in NapotBlocks
              /\ req.stride <= req.hsize
              /\ \A b \in NapotBlocks : b <= req.hsize => b <= req.stride
        /\ (req.huge /\ req.napot /\ req.hsize < PMD_SIZE) => req.stride = PAGE_SIZE
        /\ req.huge => req.stride <= req.hsize

C9_Witness ==
    /\ pc = "done"
    /\ req.fn = "flush_tlb_range"
    /\ req.huge
    /\ req.napot
    /\ req.hsize = 2 * PMD_SIZE
    /\ req.stride = PMD_SIZE

\* C10: under every interleaving of arch_tlbbatch_add_pending with
\* arch_tlbbatch_flush on one batch, a processor that was added is either in
\* the set the flush dispatched over or still in the batch when the flush
\* has completed.
C10_NoAccumulationDropped ==
    (pc = "done" /\ req.fn = "arch_tlbbatch_flush") =>
        acc.added \subseteq (bk.mask \cup batch)

\* the batch flush has returned, the batch cleared
BatchFlushed == pc = "done" /\ req.fn = "arch_tlbbatch_flush"

\* C11: when one thread flushes, accumulates and flushes again, each
\* arch_tlbbatch_flush dispatches over exactly the processors in the batch at
\* that time and leaves the batch empty, and every processor added since the
\* previous flush cleared the batch is in the target set of the next flush
\* and has been flushed by it.
C11_SequentialFlushAccumulateFlush ==
    BatchFlushed =>
        /\ bk.seen = acc.added
        /\ bk.mask = acc.added
        /\ batch = {}
        /\ \A c \in acc.added : ops[c] # << >> /\ tlb[c] = {}
        /\ \A c \in CPUs \ acc.added : ops[c] = << >>

C11_Witness ==
    /\ BatchFlushed
    /\ acc.last = {0}
    /\ acc.added = {1, 2}
    /\ bk.mask = {1, 2}
    /\ batch = {}
    /\ tlb[1] = {}

\* C12: arch_tlbbatch_add_pending is a union: the batch one thread has
\* accumulated is exactly the union of the processor sets added, in whatever
\* order and however often each was added; adding a set twice gives what
\* adding it once gives, and adding A then B gives what adding B then A gives.
C12_AccumulateIsUnion ==
    pc = "idle" =>
        /\ batch = acc.added
        /\ \A A \in SUBSET online, B \in SUBSET online :
              /\ cpumask_or(cpumask_or(batch, A), A) = cpumask_or(batch, A)
              /\ cpumask_or(cpumask_or(batch, A), B) = cpumask_or(cpumask_or(batch, B), A)
              /\ cpumask_or(cpumask_or(batch, A), B) = batch \cup A \cup B

C12_Witness ==
    /\ pc = "idle"
    /\ acc.last = {}
    /\ batch = {0, 2}
    /\ acc.added = {0, 2}

\* C13 (as stated): arch_tlbbatch_flush dispatches over the accumulated batch
\* with the size FLUSH_TLB_MAX_SIZE and, when identifiers are in use, with the
\* accumulated context's own identifier and not FLUSH_TLB_NO_ASID.
C13_BatchFlushUsesContextAsid ==
    (BatchFlushed /\ use_asid) =>
        /\ bk.seen = acc.added
        /\ req.size = FLUSH_TLB_MAX_SIZE
        /\ req.asid = get_mm_asid(mm_context_id)
        /\ req.asid # FLUSH_TLB_NO_ASID

\* C13 (amended): arch_tlbbatch_flush dispatches over the accumulated batch
\* with the size FLUSH_TLB_MAX_SIZE and with FLUSH_TLB_NO_ASID, whether or not
\* identifiers are in use: every processor of the batch loses the
\* translations of every address space.
C13_BatchFlushUsesNoAsid ==
    BatchFlushed =>
        /\ bk.seen = acc.added
        /\ req.start = 0
        /\ req.size = FLUSH_TLB_MAX_SIZE
        /\ req.asid = FLUSH_TLB_NO_ASID
        /\ \A c \in acc.added : tlb[c] = {}

C13_Witness ==
    /\ BatchFlushed
    /\ use_asid
    /\ ~use_ipi
    /\ acc.added = {0, 1}
    /\ bk.kind = "sbi"
    /\ req.asid = FLUSH_TLB_NO_ASID
    /\ tlb[0] = {}
    /\ tlb[2] = Entries

\* a broadcast backend has been invoked by the call in progress
Broadcasted == bk.kind \in {"ipi", "sbi"}

\* C14 (as stated): the pin covers the membership decision and a local-only
\* flush and is released before a broadcast backend is called: no broadcast
\* call is issued, and none is waited for, while the pin is held.
C14_NoBroadcastWhilePinned ==
    /\ bk.kind = "local" => bk.pin >= 1
    /\ Broadcasted => bk.pin = 0
    /\ pc = "wait" => preempt = 0

\* C14 (amended): for a target set other than cpu_online_mask the pin is taken
\* before the membership decision and held until the local flush or the
\* broadcast backend call has returned: the local flush and every broadcast
\* call are issued with the pin held, and put_cpu comes after them. For
\* cpu_online_mask no pin is taken and the broadcast call is issued unpinned.
C14_PinHeldUntilBackendReturns ==
    /\ (pc \in {"dispatch", "wait", "put"} /\ NotOnlineMask(req.ref)) =>
            preempt = 1 /\ cur = cpuid
    /\ bk.kind = "local" => bk.pin = 1 /\ bk.on = cpuid
    /\ (Broadcasted /\ req.ref # "online") => bk.pin = 1 /\ bk.on = cpuid
    /\ (Broadcasted /\ req.ref = "online") => bk.pin = 0
    /\ (pc \in {"dispatch", "wait", "put"} /\ req.ref = "online") => preempt = 0

C14_Witness ==
    /\ pc = "wait"
    /\ req.ref = "mm"
    /\ bk.kind = "ipi"
    /\ bk.pin = 1
    /\ preempt = 1
    /\ pending # {}
    /\ cur = cpuid

\* C15: every call of __flush_tlb_range returns, on every exit path, with the
\* pin depth it was entered with, get_cpu and put_cpu having run equally often;
\* a local-only flush runs with the pin held on the processor whose number
\* was used for the membership check.
C15_PinBalanced ==
    /\ Returned => preempt = 0 /\ bk.gets = bk.puts
    /\ pc = "idle" => preempt = 0
    /\ bk.gets \in {bk.puts, bk.puts + 1}
    /\ bk.kind = "local" =>
          /\ bk.pin >= 1
          /\ bk.on = cpuid
          /\ \A c \in CPUs \ {cpuid} : ops[c] = << >>

C15_Witness ==
    /\ Returned
    /\ bk.kind = "local"
    /\ bk.gets = 1
    /\ bk.puts = 1
    /\ preempt = 0
    /\ bk.on = cpuid
    /\ ops[cpuid] # << >>
    /\ online = CPUs

\* C16: on the IPI backend every processor of the target set runs the local
\* range flush exactly once, with exactly the start, size, stride and
\* identifier __flush_tlb_range was called with, and __flush_tlb_range does
\* not go on (and release ftd) before all of them have finished.
C16_IpiExactlyOnce ==
    /\ pc = "wait" =>
          /\ bk.kind = "ipi"
          /\ ftd = [asid |-> req.asid, start |-> req.start, size |-> req.size,
                    stride |-> req.stride]
          /\ pending \subseteq bk.mask
          /\ \A c \in CPUs :
                ops[c] = IF c \in bk.mask \ pending THEN ExpectedLocal ELSE << >>
    /\ (pc \in {"put", "done"} /\ bk.kind = "ipi") =>
          /\ pending = {}
          /\ \A c \in CPUs :
                ops[c] = IF c \in bk.mask THEN ExpectedLocal ELSE << >>

C16_Witness ==
    /\ Returned
    /\ bk.kind = "ipi"
    /\ req.fn = "flush_pmd_tlb_range"
    /\ bk.mask = {0, 1, 2}
    /\ Len(ExpectedLocal) > 1
    /\ ops[0] = ExpectedLocal
    /\ ops[2] = ExpectedLocal

\* the entry points that flush for one context
MmFlushes == { "flush_tlb_mm", "flush_tlb_mm_range", "flush_tlb_page",
               "flush_tlb_range", "flush_pmd_tlb_range" }

\* C17: a flush by flush_tlb_mm, flush_tlb_mm_range, flush_tlb_page,
\* flush_tlb_range or flush_pmd_tlb_range for a context that has an
\* identifier leaves, on every processor, every cached translation tagged
\* with another identifier in place, on the page-by-page path and on the
\* full-flush path alike.
C17_OtherAsidUntouched ==
    (req.fn \in MmFlushes /\ req.asid # FLUSH_TLB_NO_ASID) =>
        \A c \in online : \A e \in Entries : e.asid # req.asid => e \in tlb[c]

C17_Witness ==
    /\ Returned
    /\ req.fn = "flush_tlb_mm"
    /\ req.asid = mm_context_id
    /\ bk.mask = {0, 1}
    /\ tlb[0] = { e \in Entries : e.asid # mm_context_id }
    /\ tlb[1] = { e \in Entries : e.asid # mm_context_id }
    /\ tlb[2] = Entries

\* the control registers smokewagon_load_tlb has written so far, in order
CsrLog == [i \in 1 .. Len(ops[cur]) |-> ops[cur][i].csr]

\* the value of the write to csr, once it has been made
Written(csr) == \E i \in 1 .. Len(ops[cur]) : ops[cur][i].csr = csr
ValueOf(csr) == ops[cur][CHOOSE i \in 1 .. Len(ops[cur]) : ops[cur][i].csr = csr].val

\* C18: smokewagon_load_tlb writes SMEH, then SMEL, then SMCIR with the
\* TLB-write command: the commit write is the last of the three, is never
\* made before both descriptors are written, and each register is written
\* exactly once per call.
C18_CsrWriteOrder ==
    req.fn = "smokewagon_load_tlb" =>
        /\ Len(CsrLog) <= 3
        /\ CsrLog = SubSeq(<< "CSR_SMEH", "CSR_SMEL", "CSR_SMCIR" >>, 1, Len(CsrLog))
        /\ pc = "loaded" =>
              /\ CsrLog = << "CSR_SMEH", "CSR_SMEL", "CSR_SMCIR" >>
              /\ ops[cur][3].val = SMCIR_TLBWR
        /\ \A c \in CPUs \ {cur} : ops[c] = << >>

C18_Witness ==
    /\ pc = "loaded"
    /\ req.fn = "smokewagon_load_tlb"
    /\ Len(ops[cur]) = 3
    /\ ops[cur][1].csr = "CSR_SMEH"
    /\ ops[cur][3] = csr_write("CSR_SMCIR", Bit(28))

\* C19: for every faulting address and every context, its identifier
\* assigned or absent, the match descriptor written to SMEH has the
\* address's virtual page number in the bits from 19 upward, bit 16 set,
\* bits 17 and 18 clear, and the identifier in the low 16 bits.
C19_MatchDescriptorDecodes ==
    (req.fn = "smokewagon_load_tlb" /\ Written("CSR_SMEH")) =>
        LET smeh == ValueOf("CSR_SMEH")
        IN  /\ Shr(smeh, 19) = Shr(req.address, FILL_PAGE_SHIFT)
            /\ 16 \in smeh
            /\ 17 \notin smeh
            /\ 18 \notin smeh
            /\ smeh \cap (0 .. 15) = Word64(get_mm_asid(req.id)) \cap (0 .. 15)

\* C20: for every page-table entry value and every frame number below 2^49
\* the entry descriptor written to SMEL has bits 62, 61, 60, 59 and 0 set and
\* bit 63 clear, the frame number in the bits from 10 up to 58, and bits 9..1
\* equal to bits 9..1 of the page-table entry; bit 0 is set whatever the
\* page-table entry's own valid bit is.
C20_EntryDescriptorFields ==
    (req.fn = "smokewagon_load_tlb" /\ Written("CSR_SMEL") /\ req.pfn \subseteq 0 .. 48) =>
        LET smel == ValueOf("CSR_SMEL")
        IN  /\ {62, 61, 60, 59, 0} \subseteq smel
            /\ 63 \notin smel
            /\ Shr(smel \cap (10 .. 58), 10) = req.pfn
            /\ smel \cap (1 .. 9) = req.pte \cap (1 .. 9)

C20_Witness ==
    /\ pc = "loaded"
    /\ req.fn = "smokewagon_load_tlb"
    /\ req.pte = {1, 3, 9, 12, 59, 63}
    /\ req.pfn = 0 .. 48
    /\ ValueOf("CSR_SMEL") = (0 .. 62) \ {2, 4, 5, 6, 7, 8}

=============================================================================
